---- MODULE Spec2Model ----
(***************************************************************************)
(* vplan2019: the authentication and token-issuance flow, and the          *)
(* gathering of the VPlans.                                                *)
(*                                                                         *)
(* The model covers the MySQL driver's apitoken statements                 *)
(* (GetAPIToken, GetUserAPIToken, SetUserAPIToken) and GetVPlans, the      *)
(* debug auth                                                              *)
(* provider and the HTTP handlers POST /api/authenticate/{username} and    *)
(* GET /api/vplan.  Every request is served by a worker of its own         *)
(* (net/http serves each connection in a goroutine); the workers share     *)
(* the apitoken table and the session store and interleave between any     *)
(* two SQL statements.                                                     *)
(***************************************************************************)
EXTENDS Integers, Sequences, FiniteSets, TLC

\* ------------------------------------------------------------------ bounds

\* Number of tokens the token manager generates in one behaviour; every
\* generated token is a new value (tokens are random strings), and the k-th
\* token is generated at instant k.
MaxTokens == 3

\* The request workers that run concurrently.
Workers == {"w1", "w2"}

\* The instants at which a token expires, and the clock readings of a request
\* that presents one, in seconds of one fixed minute.
Times == 1..(MaxTokens + 2)

\* Rows of the vplan table, and rows of vplan_details of one vplan.
MaxPlans == 2
MaxEntries == 2

\* The class of the stored entries, and the class parameter of GET /api/vplan
\* ("" asks for the entries of every class).
EntryClasses == {"10a"}
Classes == {"", "10a", "10b"}

\* Inputs of POST /api/authenticate/{username}.
Usernames == {"test", "guest"}
Passwords == {"", "passwd", "wrong"}
Sessions == {0, 1, 2}

\* ------------------------------------------------------------ plain values

Nil == "nil"
NotRun == "not run"
None == [none |-> TRUE]

ErrUpdate == "updateAPIToken.Exec: storage error"
ErrRowsAffected == "RowsAffected: error"
ErrInsert == "insertAPIToken.Exec: storage error"
ErrScanInt64 == "sql: Scan error on column expire: converting to int64: invalid syntax"
ErrQuery == "query: storage error"
ErrQueryEntries == "selectVPlanEntries.Query: storage error"
ErrScanVPlan == "sql: Scan error on a vplan row"
ErrScanEntry == "sql: Scan error on a vplan_details row"
ErrSessionSave == "session.Save: error"
ErrParseBody == "invalid JSON body"
ErrUnauthorized == "unauthorized"

StatusOK == 200
StatusBadRequest == 400
StatusUnauthorized == 401
StatusTooManyRequests == 429
StatusInternalServerError == 500

\* session.Options.MaxAge: the store's default, or config.Sessions.RememberMaxAge
DefaultMaxAge == "DefaultMaxAge"
RememberMaxAge == "RememberMaxAge"

\* --------------------------------------------------------- auth provider

\* DebugAuthProvider.Connect: the credential store
creds == [u \in {"test"} |-> "passwd"]

\* fmt.Sprintf("%x", sha256.Sum256(b)): a hash, told apart from its input
Sha256Hex(s) == "sha256(" \o s \o ")"

AuthenticateIgnoringPassword(username, password) ==
    IF username \in DOMAIN creds
    THEN [resp |-> [Ident |-> Sha256Hex(username \o password), Ctx |-> Nil], err |-> Nil]
    ELSE [resp |-> None, err |-> ErrUnauthorized]

\* DebugAuthProvider.Authenticate
Authenticate(username, password) ==
    IF username \in DOMAIN creds /\ creds[username] = password
    THEN [resp |-> [Ident |-> Sha256Hex(username \o password), Ctx |-> Nil], err |-> Nil]
    ELSE [resp |-> None, err |-> ErrUnauthorized]

\* The identities that own token records: the debug provider's one identity,
\* and one that another provider variant authenticates.
IdentTest == Sha256Hex("test" \o "passwd")
IdentOther == "uid=other"
Idents == {IdentTest, IdentOther}

\* ------------------------------------------------------ timestamp columns

Digits == <<"0", "1", "2", "3", "4", "5", "6", "7", "8", "9">>
IsDigit(c) == \E k \in 1..10 : Digits[k] = c
DigitVal(c) == (CHOOSE k \in 1..10 : Digits[k] = c) - 1

\* The text the driver hands over for a TIMESTAMP column, in timeFormat
\* ("2006-01-02 15:04:05"); t is the second of the minute.
FormatTimestamp(t) ==
    <<"2", "0", "1", "9", "-", "0", "1", "-", "0", "1", " ",
      "0", "0", ":", "0", "0", ":", Digits[(t \div 10) + 1], Digits[(t % 10) + 1]>>

\* time.Parse(timeFormat, s)
ParseTime(s) ==
    IF /\ Len(s) = 19
       /\ s[5] = "-" /\ s[8] = "-" /\ s[11] = " " /\ s[14] = ":" /\ s[17] = ":"
       /\ \A k \in (1..19) \ {5, 8, 11, 14, 17} : IsDigit(s[k])
    THEN [ok |-> TRUE, t |-> DigitVal(s[18]) * 10 + DigitVal(s[19])]
    ELSE [ok |-> FALSE, t |-> 0]

\* rows.Scan into an int64 destination: strconv.ParseInt of the column text
ScanInt64(s) ==
    IF Len(s) > 0 /\ \A k \in 1..Len(s) : IsDigit(s[k]) \/ (k = 1 /\ Len(s) > 1 /\ s[k] \in {"+", "-"})
    THEN [ok |-> TRUE]
    ELSE [ok |-> FALSE]

\* rows.Scan into a database.Timestamp destination: the bytes are kept
ScanTimestamp(s) == [ok |-> TRUE, text |-> s]

\* ------------------------------------------------------- apitoken table

RECURSIVE CountRows(_, _)
\* rows of the table owned by ident
CountRows(rows, ident) ==
    IF rows = <<>> THEN 0
    ELSE (IF Head(rows).ident = ident THEN 1 ELSE 0) + CountRows(Tail(rows), ident)

IndexesOf(rows, ident) == {k \in 1..Len(rows) : rows[k].ident = ident}

\* "UPDATE apitoken SET token = ?, expire = ? WHERE ident = ?"
UpdateRows(rows, ident, token, expire) ==
    [k \in 1..Len(rows) |->
        IF rows[k].ident = ident
        THEN [ident |-> ident, token |-> token, expire |-> expire]
        ELSE rows[k]]

\* res.RowsAffected() of the UPDATE: the DSN sets no clientFoundRows, so
\* MySQL counts the rows whose values changed
RowsAffected(rows, ident, token, expire) ==
    Cardinality({k \in IndexesOf(rows, ident) :
                    rows[k].token # token \/ rows[k].expire # expire})

\* "INSERT INTO apitoken (ident, token, expire) VALUES (?, ?, ?)"; the table
\* of Setup has the auto-increment id as its only key
InsertRow(rows, ident, token, expire) ==
    Append(rows, [ident |-> ident, token |-> token, expire |-> expire])

NeedsInsertAlsoOnOneRow(ar) == ar <= 1

\* SetUserAPIToken: "else if ar < 1"
NeedsInsert(ar) == ar < 1

\* records that differ between two table contents, among those of ident (own)
\* or among those of the other identities
Written(old, new, ident, own) ==
    Cardinality({k \in 1..Len(new) : /\ (new[k].ident = ident) = own
                                     /\ (k > Len(old) \/ old[k] # new[k])})

\* ------------------------------------------------------------------ state

VARIABLES
    vplan,        \* the vplan table in id order, the rows with deleted = 0: a row
                  \* [scans, entries] can be stored by rows.Scan or cannot (a
                  \* NULL column), and holds its vplan_details rows [class, scans];
                  \* the program only reads these tables
    apitoken,     \* the apitoken table: rows [ident, token, expire] in insertion (id) order
    apisessions,  \* the session store: the saved sessions [ident, maxAge]
    nextToken,    \* the next token value the token manager generates
    pc,           \* per worker: where its request stands
    frame,        \* per worker: the locals of the request it serves
    last,         \* per identity: (token, expire) of the latest statement that wrote
                  \* its records, if the call that ran it returned nil with it
                  \* (a frame's prev is its value when the call began)
    returned      \* the call that returned in the latest step, with its inputs,
                  \* the collaborators it called and what it answered

vars == <<vplan, apitoken, apisessions, nextToken, pc, frame, last, returned>>

NoFrame ==
    [op |-> "none", allowed |-> FALSE, bodyOK |-> FALSE, uname |-> "", passwd |-> "",
     session |-> 0, ident |-> "", token |-> 0, expire |-> 0, calls |-> <<>>,
     written |-> 0, foreign |-> 0, prev |-> None]

\* a call record: the frame of the call, what its statements returned, and
\* the response written (status 0: none)
NoCall ==
    [op |-> "none", allowed |-> FALSE, bodyOK |-> FALSE, uname |-> "", passwd |-> "",
     session |-> 0, ident |-> "", token |-> 0, expire |-> 0, calls |-> <<>>,
     written |-> 0, foreign |-> 0, prev |-> None, cookieIn |-> None, bearerIn |-> 0,
     updErr |-> NotRun, insErr |-> NotRun, err |-> Nil, expect |-> None,
     status |-> 0, message |-> "", fields |-> {}, respIdent |-> "", respToken |-> 0,
     respExpire |-> 0, setCookie |-> None,
     planErr |-> NotRun, appended |-> 0, collected |-> <<>>, data |-> <<>>]

\* the call record of a frame, before its results are filled in
CallOf(f) ==
    [NoCall EXCEPT !.op = f.op, !.allowed = f.allowed, !.bodyOK = f.bodyOK,
                   !.prev = f.prev, !.uname = f.uname,
                   !.passwd = f.passwd, !.session = f.session, !.ident = f.ident,
                   !.token = f.token, !.expire = f.expire, !.calls = f.calls,
                   !.written = f.written, !.foreign = f.foreign]

\* jsonResponse(w, code, apiError(code, msg))
ApiError(call, code, msg) ==
    [call EXCEPT !.status = code, !.message = msg, !.fields = {"error"}]

Init ==
    /\ vplan = <<>>
    /\ apitoken = <<>>
    /\ apisessions = {}
    /\ nextToken = 1
    /\ pc = [w \in Workers |-> "idle"]
    /\ frame = [w \in Workers |-> NoFrame]
    /\ last = [i \in Idents |-> None]
    /\ returned = NoCall

\* the call record of the latest return is looked at and dropped; no step of
\* the program reads it, so every interleaving of the program's steps remains
Observe ==
    /\ returned # NoCall
    /\ returned' = NoCall
    /\ UNCHANGED <<vplan, apitoken, apisessions, nextToken, pc, frame, last>>

\* the worker's request is answered: the worker is free again, and the call
\* record is kept until it has been looked at
Complete(w, call) ==
    /\ pc' = [pc EXCEPT ![w] = "idle"]
    /\ frame' = [frame EXCEPT ![w] = NoFrame]
    /\ returned' = call

\* worker w stands at step at, and the latest call record has been looked at
At(w, at) == returned = NoCall /\ pc[w] = at

\* the worker's request goes on at step to with locals f
Goto(w, to, f) ==
    /\ pc' = [pc EXCEPT ![w] = to]
    /\ frame' = [frame EXCEPT ![w] = f]
    /\ returned' = NoCall

\* ------------------------------------------- POST /api/authenticate/:USERNAME

\* s.limiter.Check("authenticate", w, r): writes 429 itself when it rejects
AuthLimiter(w) ==
    /\ At(w, "idle")
    /\ \E allowed \in BOOLEAN :
         LET f == [NoFrame EXCEPT !.op = "authenticate", !.allowed = allowed,
                                  !.calls = <<"limiter.Check">>]
         IN  IF ~allowed
             THEN Complete(w, ApiError(CallOf(f), StatusTooManyRequests, ""))
             ELSE Goto(w, "authBody", f)
    /\ UNCHANGED <<vplan, apitoken, apisessions, nextToken, last>>

PasswordNeverMissing(passwd) == FALSE

\* handlerAPIAuthenticate: if passwd == ""
PasswordMissing(passwd) == passwd = ""

\* handlerAPIAuthenticate from the URL parameter to the auth provider's answer
AuthBody(w) ==
    /\ At(w, "authBody")
    /\ \E hasUname \in BOOLEAN :
       \E uname \in (IF hasUname THEN Usernames ELSE {""}) :
       \E parseErr \in (IF hasUname THEN BOOLEAN ELSE {FALSE}) :
       \E passwd \in (IF hasUname /\ ~parseErr THEN Passwords ELSE {""}) :
         LET f0 == frame[w]
             fu == [f0 EXCEPT !.uname = uname]
             fb == [fu EXCEPT !.bodyOK = TRUE, !.passwd = passwd]
             a  == Authenticate(uname, passwd)
             fa == [fb EXCEPT !.calls = Append(@, "Authenticate")]
         IN  IF ~hasUname
             THEN Complete(w, ApiError(CallOf(f0), StatusBadRequest, ""))
             ELSE IF parseErr
             THEN Complete(w, ApiError(CallOf(fu), StatusBadRequest, ErrParseBody))
             ELSE IF PasswordMissing(passwd)
             THEN Complete(w, ApiError(CallOf(fb), StatusBadRequest, ""))
             ELSE IF a.err # Nil
             THEN Complete(w, ApiError(CallOf(fa), StatusUnauthorized, ""))
             ELSE Goto(w, "issue", [fa EXCEPT !.ident = a.resp.Ident])
    /\ UNCHANGED <<vplan, apitoken, apisessions, nextToken, last>>

UseSessionOnlyToRemember(session) == session > 1

\* handlerAPIAuthenticate: if reqData.Session > 0
UseSession(session) == session > 0

\* handlerAPIAuthenticate: if reqData.Session > 1
RememberMe(session) == session > 1

\* handlerAPIAuthenticate, session branch: store.Get, Values["ident"], MaxAge, Save
\* (reqData.Session is drawn where the handler first reads it)
AuthSaveSession(w) ==
    /\ At(w, "issue")
    /\ \E session \in Sessions, saveErr \in BOOLEAN :
         LET f == [frame[w] EXCEPT !.session = session,
                                   !.calls = Append(@, "session.Save")]
             s == [ident |-> f.ident,
                   maxAge |-> IF RememberMe(f.session) THEN RememberMaxAge ELSE DefaultMaxAge]
         IN  /\ UseSession(session)
             /\ IF saveErr
                THEN /\ apisessions' = apisessions
                     /\ Complete(w, ApiError(CallOf(f), StatusInternalServerError,
                                             ErrSessionSave))
                ELSE /\ apisessions' = apisessions \cup {s}
                     /\ Complete(w, [CallOf(f) EXCEPT !.status = StatusOK,
                                                      !.fields = {"ident", "ctx"},
                                                      !.respIdent = f.ident,
                                                      !.setCookie = s])
    /\ UNCHANGED <<vplan, apitoken, nextToken, last>>

\* the expiry of a token generated at instant now: now plus the configured lifetime
ExpireAt(now) == now + 1

\* tokenManager.Set(ident): a new random token and its expiry, then
\* db.SetUserAPIToken(ident, token, expire)
TokenManagerSet(w, f, ident) ==
    /\ nextToken <= MaxTokens
    /\ Goto(w, "update", [f EXCEPT !.ident = ident, !.token = nextToken,
                                   !.expire = ExpireAt(nextToken),
                                   !.prev = last[ident],
                                   !.calls = Append(@, "tokenManager.Set")])
    /\ nextToken' = nextToken + 1
    /\ UNCHANGED <<vplan, apitoken, apisessions, last>>

\* handlerAPIAuthenticate, token branch: s.tokenManager.Set(authData.Ident)
AuthIssueToken(w) ==
    /\ At(w, "issue")
    /\ \E session \in Sessions :
         /\ ~UseSession(session)
         /\ TokenManagerSet(w, [frame[w] EXCEPT !.session = session], frame[w].ident)

\* the token manager serving an identity that another auth provider vouches for
IssueOrRenew(w) ==
    /\ At(w, "idle")
    /\ \E ident \in {IdentOther} :
         TokenManagerSet(w, [NoFrame EXCEPT !.op = "tokenManager.Set"], ident)

\* ------------------------------------------------------ MySQL.SetUserAPIToken

TokenAnswerIgnoringErr(call, err) ==
    [call EXCEPT !.status = StatusOK, !.fields = {"ident", "ctx", "token", "expire"},
                 !.respIdent = call.ident, !.respToken = call.token,
                 !.respExpire = call.expire]

\* handlerAPIAuthenticate: the answer to what tokenManager.Set returned
TokenAnswer(call, err) ==
    IF err # Nil
    THEN ApiError(call, StatusInternalServerError, err)
    ELSE [call EXCEPT !.status = StatusOK, !.fields = {"ident", "ctx", "token", "expire"},
                      !.respIdent = call.ident, !.respToken = call.token,
                      !.respExpire = call.expire]

\* SetUserAPIToken returns err to tokenManager.Set, which returns it to its caller
SetReturn(w, f, updErr, insErr, err) ==
    LET c == [CallOf(f) EXCEPT !.updErr = updErr, !.insErr = insErr, !.err = err]
    IN  Complete(w, IF f.op = "authenticate" THEN TokenAnswer(c, err) ELSE c)

\* what a statement that wrote records of ident leaves in last
LastAfter(ident, f, wrote, returnsNil) ==
    IF ~wrote THEN last
    ELSE [last EXCEPT ![ident] = IF returnsNil
                                 THEN [token |-> f.token, expire |-> f.expire]
                                 ELSE None]

\* SetUserAPIToken: updateAPIToken.Exec, RowsAffected and the choice of the fallback
SetUpdate(w) ==
    /\ At(w, "update")
    /\ \E execErr \in BOOLEAN, raErr \in BOOLEAN :
         LET f0  == frame[w]
             new == UpdateRows(apitoken, f0.ident, f0.token, f0.expire)
             ar  == RowsAffected(apitoken, f0.ident, f0.token, f0.expire)
             f   == [f0 EXCEPT
                        !.written = @ + Written(apitoken, new, f0.ident, TRUE),
                        !.foreign = @ + Written(apitoken, new, f0.ident, FALSE)]
         IN  IF execErr
             THEN /\ apitoken' = apitoken
                  /\ last' = last
                  /\ SetReturn(w, f0, ErrUpdate, NotRun, ErrUpdate)
             ELSE IF raErr
             THEN /\ apitoken' = new
                  /\ last' = LastAfter(f.ident, f, new # apitoken, FALSE)
                  /\ SetReturn(w, f, Nil, NotRun, ErrRowsAffected)
             ELSE IF NeedsInsert(ar)
             THEN /\ apitoken' = new
                  /\ last' = LastAfter(f.ident, f, new # apitoken, FALSE)
                  /\ Goto(w, "insert", f)
             ELSE /\ apitoken' = new
                  /\ last' = LastAfter(f.ident, f, new # apitoken, TRUE)
                  /\ SetReturn(w, f, Nil, NotRun, Nil)
    /\ UNCHANGED <<vplan, apisessions, nextToken>>

\* SetUserAPIToken: insertAPIToken.Exec
SetInsert(w) ==
    /\ At(w, "insert")
    /\ \E execErr \in BOOLEAN :
         LET f0  == frame[w]
             new == InsertRow(apitoken, f0.ident, f0.token, f0.expire)
             f   == [f0 EXCEPT
                        !.written = @ + Written(apitoken, new, f0.ident, TRUE),
                        !.foreign = @ + Written(apitoken, new, f0.ident, FALSE)]
         IN  IF execErr
             THEN /\ apitoken' = apitoken
                  /\ last' = last
                  /\ SetReturn(w, f0, Nil, ErrInsert, ErrInsert)
             ELSE /\ apitoken' = new
                  /\ last' = LastAfter(f.ident, f, TRUE, TRUE)
                  /\ SetReturn(w, f, Nil, Nil, Nil)
    /\ UNCHANGED <<vplan, apisessions, nextToken>>

\* ------------------------------------------------- reads of the apitoken table

\* MySQL.GetUserAPIToken: the outcomes of QueryRow(ident) and Scan(&token, &expire)
\* with expire an int64; without ORDER BY any matching row may come first
GetUserAPIToken(rows, ident) ==
    IF IndexesOf(rows, ident) = {}
    THEN {[token |-> 0, expire |-> 0, err |-> Nil]}
    ELSE {IF ~ScanInt64(FormatTimestamp(rows[k].expire)).ok
          THEN [token |-> 0, expire |-> 0, err |-> ErrScanInt64]
          ELSE [token |-> rows[k].token, expire |-> 0, err |-> "time.Parse: error"]
          : k \in IndexesOf(rows, ident)}

\* a caller of the driver reads the token of an identity
GetUserAPITokenCall(w) ==
    /\ At(w, "idle")
    /\ \E ident \in Idents : \E r \in GetUserAPIToken(apitoken, ident) :
         Complete(w, [NoCall EXCEPT !.op = "GetUserAPIToken", !.ident = ident,
                                    !.calls = <<"selectAPITokenByIdent.QueryRow">>,
                                    !.token = r.token, !.expire = r.expire,
                                    !.err = r.err, !.expect = last[ident]])
    /\ UNCHANGED <<vplan, apitoken, apisessions, nextToken, last>>

\* MySQL.GetAPIToken: the outcomes of QueryRow(token) and Scan(&ident, &expire)
\* with expire a database.Timestamp, then time.Parse
GetAPIToken(rows, token) ==
    LET hits == {k \in 1..Len(rows) : rows[k].token = token}
    IN  IF hits = {}
        THEN {[ident |-> "", expire |-> 0, err |-> Nil]}
        ELSE {LET p == ParseTime(ScanTimestamp(FormatTimestamp(rows[k].expire)).text)
              IN  [ident |-> rows[k].ident, expire |-> p.t,
                   err |-> IF p.ok THEN Nil ELSE "time.Parse: error"]
              : k \in hits}

\* ------------------------------------------------------------ GET /api/vplan

\* s.limiter.Check("getVPlan", w, r): writes 429 itself when it rejects
VPlanLimiter(w) ==
    /\ At(w, "idle")
    /\ \E allowed \in BOOLEAN :
         LET f == [NoFrame EXCEPT !.op = "getVPlan", !.allowed = allowed,
                                  !.calls = <<"limiter.Check">>]
         IN  IF ~allowed
             THEN Complete(w, ApiError(CallOf(f), StatusTooManyRequests, ""))
             ELSE Goto(w, "reqAuth", f)
    /\ UNCHANGED <<vplan, apitoken, apisessions, nextToken, last>>

\* reqAuth.Check(w, r): the identity of the request, or "" with the response
\* written.  A session cookie that carries an identity authorizes; otherwise
\* the bearer token is looked up by value and must not have expired; a
\* storage fault of the lookup is an internal error.
ReqAuthCheck(rows, cookie, bearer, now, fault) ==
    IF cookie # None
    THEN {[ident |-> cookie.ident, status |-> 0, message |-> ""]}
    ELSE IF bearer = 0
    THEN {[ident |-> "", status |-> StatusUnauthorized, message |-> ""]}
    ELSE IF fault
    THEN {[ident |-> "", status |-> StatusInternalServerError, message |-> ErrQuery]}
    ELSE {IF r.ident # "" /\ r.err = Nil /\ now < r.expire
          THEN [ident |-> r.ident, status |-> 0, message |-> ""]
          ELSE [ident |-> "", status |-> StatusUnauthorized, message |-> ""]
          : r \in GetAPIToken(rows, bearer)}

IdentNeverMissing(ident) == FALSE

\* handlerAPIGetVPlan: if ident == ""
IdentMissing(ident) == ident = ""

\* handlerAPIGetVPlan: ident := s.reqAuth.Check(w, r)
VPlanReqAuth(w) ==
    /\ At(w, "reqAuth")
    /\ \E cookie \in apisessions \cup {None} :
       \E bearer \in (IF cookie = None THEN 0..MaxTokens ELSE {0}) :
       \E fault \in (IF bearer # 0 THEN BOOLEAN ELSE {FALSE}) :
       \E now \in (IF bearer # 0 /\ ~fault THEN Times ELSE {1}) :
       \E a \in ReqAuthCheck(apitoken, cookie, bearer, now, fault) :
         LET f == [frame[w] EXCEPT !.calls = Append(@, "reqAuth.Check"),
                                   !.ident = a.ident]
             c == [CallOf(f) EXCEPT !.cookieIn = cookie, !.bearerIn = bearer]
         IN  IF IdentMissing(a.ident)
             THEN Complete(w, ApiError(c, a.status, a.message))
             ELSE Goto(w, "getVPlans", f)
    /\ UNCHANGED <<vplan, apitoken, apisessions, nextToken, last>>

\* multierror.NewMultiError(nil): no error collected yet
NewMultiError == <<>>

\* mErr.Append(err): a nil error is not kept (prepareStatement and GetVPlans
\* append the result of every statement, failed or not)
MultiErrorAppend(m, err) == IF err = Nil THEN m ELSE Append(m, err)

RECURSIVE JoinErrors(_)
JoinErrors(m) ==
    IF Len(m) = 1 THEN Head(m) ELSE Head(m) \o "; " \o JoinErrors(Tail(m))

\* mErr.Concat(): nil when nothing was collected (setupPrepStatements returns
\* it as the result of Connect), otherwise one error of all collected ones
MultiErrorConcat(m) == IF m = <<>> THEN Nil ELSE JoinErrors(m)

\* GetVPlans, first loop: rows.Scan of every vplan row from row k on
RECURSIVE ScanVPlans(_, _, _)
ScanVPlans(rows, k, st) ==
    IF k > Len(rows)
    THEN st
    ELSE LET err == IF rows[k].scans THEN Nil ELSE ErrScanVPlan
             m == MultiErrorAppend(st.mErr, err)
         IN  ScanVPlans(rows, k + 1,
                        IF err = Nil
                        THEN [vplans |-> Append(st.vplans, [ID |-> k, Entries |-> <<>>]),
                              mErr |-> m]
                        ELSE [st EXCEPT !.mErr = m])

\* selectVPlanEntries / selectVPlanEntriesByClass: the rows of vplan_details
\* of one vplan, as [ID, Class, scans]
SelectVPlanEntries(rows, id, class) ==
    LET all == [j \in 1..Len(rows[id].entries) |->
                   [ID |-> j, Class |-> rows[id].entries[j].class,
                    scans |-> rows[id].entries[j].scans]]
        ofClass(e) == class = "" \/ e.Class = class
    IN  SelectSeq(all, ofClass)

\* GetVPlans, inner loop: rows.Scan of every entry row from row j on
RECURSIVE ScanEntries(_, _, _)
ScanEntries(erows, j, st) ==
    IF j > Len(erows)
    THEN st
    ELSE LET err == IF erows[j].scans THEN Nil ELSE ErrScanEntry
             m == MultiErrorAppend(st.mErr, err)
         IN  ScanEntries(erows, j + 1,
                         IF err = Nil
                         THEN [entries |-> Append(st.entries,
                                                  [ID |-> erows[j].ID, Class |-> erows[j].Class]),
                               mErr |-> m]
                         ELSE [st EXCEPT !.mErr = m])

\* GetVPlans, second loop: the entries of every collected vplan from the i-th
\* on; the entries query of the vplans in entFault fails
RECURSIVE CollectEntries(_, _, _, _, _)
CollectEntries(rows, class, entFault, i, st) ==
    IF i > Len(st.vplans)
    THEN st
    ELSE LET v == st.vplans[i]
             err == IF v.ID \in entFault THEN ErrQueryEntries ELSE Nil
             m == MultiErrorAppend(st.mErr, err)
         IN  IF err # Nil
             THEN CollectEntries(rows, class, entFault, i + 1, [st EXCEPT !.mErr = m])
             ELSE LET e == ScanEntries(SelectVPlanEntries(rows, v.ID, class), 1,
                                       [entries |-> v.Entries, mErr |-> m])
                  IN  CollectEntries(rows, class, entFault, i + 1,
                                     [vplans |-> [st.vplans EXCEPT ![i].Entries = e.entries],
                                      mErr |-> e.mErr])

\* MySQL.GetVPlans(class, timestamp): (vplans, error), with the result of the
\* selectVPlans query and the number of errors collected on the way
GetVPlans(rows, class, queryErr, entFault) ==
    IF queryErr
    THEN [vplans |-> <<>>, err |-> ErrQuery, planErr |-> ErrQuery, appended |-> 0]
    ELSE LET st == CollectEntries(rows, class, entFault, 1,
                                  ScanVPlans(rows, 1, [vplans |-> <<>>,
                                                       mErr |-> NewMultiError]))
         IN  [vplans |-> st.vplans, err |-> MultiErrorConcat(st.mErr),
              planErr |-> Nil, appended |-> Len(st.mErr)]

\* handlerAPIGetVPlan: the answer to what GetVPlans returned
VPlanAnswer(call, r) ==
    LET c == [call EXCEPT !.planErr = r.planErr, !.appended = r.appended,
                          !.collected = r.vplans, !.err = r.err]
    IN  IF r.err # Nil
        THEN ApiError(c, StatusInternalServerError, r.err)
        ELSE [c EXCEPT !.status = StatusOK, !.fields = {"data"}, !.data = r.vplans]

\* handlerAPIGetVPlan: the time parameter, s.db.GetVPlans(class, t), the answer
VPlanQuery(w) ==
    /\ At(w, "getVPlans")
    /\ \E timeOK \in BOOLEAN :
       \E class \in (IF timeOK THEN Classes ELSE {""}) :
       \E queryErr \in (IF timeOK THEN BOOLEAN ELSE {FALSE}) :
       \E entFault \in (IF timeOK /\ ~queryErr THEN SUBSET (1..Len(vplan)) ELSE {{}}) :
         LET f == [frame[w] EXCEPT !.calls = Append(@, "db.GetVPlans")]
         IN  IF ~timeOK
             THEN Complete(w, ApiError(CallOf(frame[w]), StatusBadRequest,
                                       "time format is not RFC3339"))
             ELSE Complete(w, VPlanAnswer(CallOf(f),
                                          GetVPlans(vplan, class, queryErr, entFault)))
    /\ UNCHANGED <<vplan, apitoken, apisessions, nextToken, last>>

\* ---------------------------------------------------------- specifications

Step(w) ==
    \/ AuthLimiter(w)
    \/ AuthBody(w)
    \/ AuthSaveSession(w)
    \/ AuthIssueToken(w)
    \/ IssueOrRenew(w)
    \/ SetUpdate(w)
    \/ SetInsert(w)
    \/ GetUserAPITokenCall(w)
    \/ VPlanLimiter(w)
    \/ VPlanReqAuth(w)
    \/ VPlanQuery(w)

\* requests are served concurrently, one worker each
Next ==
    \/ Observe
    \/ \E w \in Workers : Step(w)

Spec == Init /\ [][Next]_vars

\* no other request is in flight
Alone(w) == \A v \in Workers \ {w} : pc[v] = "idle"

\* requests are served one after the other
NextSeq ==
    \/ Observe
    \/ \E w \in Workers : Alone(w) /\ AuthLimiter(w)
    \/ \E w \in Workers : Alone(w) /\ AuthBody(w)
    \/ \E w \in Workers : Alone(w) /\ AuthSaveSession(w)
    \/ \E w \in Workers : Alone(w) /\ AuthIssueToken(w)
    \/ \E w \in Workers : Alone(w) /\ IssueOrRenew(w)
    \/ \E w \in Workers : Alone(w) /\ SetUpdate(w)
    \/ \E w \in Workers : Alone(w) /\ SetInsert(w)
    \/ \E w \in Workers : Alone(w) /\ GetUserAPITokenCall(w)
    \/ \E w \in Workers : Alone(w) /\ VPlanLimiter(w)
    \/ \E w \in Workers : Alone(w) /\ VPlanReqAuth(w)
    \/ \E w \in Workers : Alone(w) /\ VPlanQuery(w)

SpecSeq == Init /\ [][NextSeq]_vars

\* the sequences over S of length at most n
SeqsUpTo(S, n) == UNION {[1..k -> S] : k \in 0..n}

\* the contents of the vplan tables
VPlanTables ==
    SeqsUpTo([scans : BOOLEAN,
              entries : SeqsUpTo([class : EntryClasses, scans : BOOLEAN], MaxEntries)],
             MaxPlans)

\* a session has been saved for the debug user, and the tables hold any VPlans
InitVPlan ==
    /\ vplan \in VPlanTables
    /\ apitoken = <<>>
    /\ apisessions = {[ident |-> IdentTest, maxAge |-> DefaultMaxAge]}
    /\ nextToken = 1
    /\ pc = [w \in Workers |-> "idle"]
    /\ frame = [w \in Workers |-> NoFrame]
    /\ last = [i \in Idents |-> None]
    /\ returned = NoCall

\* GET /api/vplan requests, served one after the other
NextVPlan ==
    \/ Observe
    \/ \E w \in Workers : Alone(w) /\ VPlanLimiter(w)
    \/ \E w \in Workers : Alone(w) /\ VPlanReqAuth(w)
    \/ \E w \in Workers : Alone(w) /\ VPlanQuery(w)

SpecVPlan == InitVPlan /\ [][NextVPlan]_vars

TypeOK ==
    /\ vplan \in VPlanTables
    /\ \A k \in 1..Len(apitoken) :
          apitoken[k] \in [ident : Idents, token : 1..MaxTokens, expire : Times]
    /\ apisessions \subseteq [ident : Idents, maxAge : {DefaultMaxAge, RememberMaxAge}]
    /\ nextToken \in 1..(MaxTokens + 1)
    /\ \A w \in Workers :
          pc[w] \in {"idle", "authBody", "issue", "update", "insert", "reqAuth", "getVPlans"}

\* ------------------------------------------------------------- properties

\* the call record says that collaborator name was called
Called(call, name) == \E k \in 1..Len(call.calls) : call.calls[k] = name

\* a SetUserAPIToken call has just returned
SetReturned == Called(returned, "tokenManager.Set")

\* no SetUserAPIToken call stands between its statements
Quiescent == \A w \in Workers : pc[w] \notin {"update", "insert"}

InCreds(u, p) == u \in DOMAIN creds /\ creds[u] = p

\* C1: once all token issue/renew calls have completed, the apitoken table
\* holds at most one record per identity, however the calls interleaved.
C1_AtMostOneRecordPerIdentity ==
    Quiescent => \A i \in Idents : CountRows(apitoken, i) <= 1

\* C2: two SetUserAPIToken calls for one identity, one after the other and
\* with different tokens, leave exactly one record of the identity; it carries
\* the token and the expiry of the second call, and the first token is gone.
C2_RenewalReplaces ==
    (/\ SetReturned /\ returned.err = Nil
     /\ returned.prev # None /\ returned.prev.token # returned.token)
    => /\ CountRows(apitoken, returned.ident) = 1
       /\ \A k \in IndexesOf(apitoken, returned.ident) :
             /\ apitoken[k].token = returned.token
             /\ apitoken[k].expire = returned.expire
             /\ apitoken[k].token # returned.prev.token

C2_Witness ==
    /\ SetReturned /\ returned.err = Nil
    /\ returned.prev # None /\ returned.prev.token # returned.token
    /\ returned.prev.expire # returned.expire
    /\ CountRows(apitoken, returned.ident) = 1

\* C3: GetUserAPIToken(ident), called after a successful
\* SetUserAPIToken(ident, token, expire) with no write of the identity's
\* records in between, returns (token, expire) and no error.
C3_RoundTrip ==
    (returned.op = "GetUserAPIToken" /\ returned.expect # None)
    => /\ returned.err = Nil
       /\ returned.token = returned.expect.token
       /\ returned.expire = returned.expect.expire

\* C4: for every (username, password) that is no entry of the credential
\* store, Authenticate returns an error and no response, and the handler
\* answers 401 with an empty message, the same for an unknown user and for a
\* wrong password, and neither issues a token nor saves a session.
C4_UnknownCredentialIsUnauthorized ==
    /\ \A u \in Usernames, p \in Passwords :
          ~InCreds(u, p) => /\ Authenticate(u, p).err # Nil
                            /\ Authenticate(u, p).resp = None
    /\ (/\ returned.op = "authenticate" /\ Called(returned, "Authenticate")
        /\ ~InCreds(returned.uname, returned.passwd))
       => /\ returned.status = StatusUnauthorized
          /\ returned.message = ""
          /\ returned.fields = {"error"}
          /\ returned.respToken = 0
          /\ returned.setCookie = None
          /\ ~Called(returned, "tokenManager.Set")
          /\ ~Called(returned, "session.Save")
    /\ \A w \in Workers :
          (frame[w].op = "authenticate" /\ pc[w] \in {"issue", "update", "insert"})
          => InCreds(frame[w].uname, frame[w].passwd)

C4_Witness ==
    /\ returned.op = "authenticate" /\ Called(returned, "Authenticate")
    /\ returned.uname = "test" /\ returned.passwd = "wrong"
    /\ returned.status = StatusUnauthorized

\* C5: a POST /api/authenticate request that passed the rate limiter and
\* whose body holds an empty password is answered 400; Authenticate is not
\* called, no token record is written and no session is saved.
C5_EmptyPasswordIsBadRequest ==
    /\ (/\ returned.op = "authenticate" /\ returned.allowed
        /\ returned.bodyOK /\ returned.passwd = "")
       => /\ returned.status = StatusBadRequest
          /\ ~Called(returned, "Authenticate")
          /\ ~Called(returned, "tokenManager.Set")
          /\ ~Called(returned, "session.Save")
          /\ returned.written = 0
          /\ returned.setCookie = None
    /\ \A w \in Workers :
          (frame[w].op = "authenticate" /\ frame[w].bodyOK /\ frame[w].passwd = "")
          => FALSE

C5_Witness ==
    /\ returned.op = "authenticate" /\ returned.allowed
    /\ returned.bodyOK /\ returned.passwd = ""
    /\ returned.status = StatusBadRequest

\* the number of times the call record names collaborator name
TimesCalled(call, name) == Cardinality({k \in 1..Len(call.calls) : call.calls[k] = name})

C7_GateBeforeQuery ==
    /\ returned.op = "getVPlan"
       => /\ Called(returned, "db.GetVPlans")
             => /\ returned.allowed /\ returned.ident # ""
                /\ returned.calls = <<"limiter.Check", "reqAuth.Check", "db.GetVPlans">>
          /\ ~returned.allowed
             => /\ returned.calls = <<"limiter.Check">>
                /\ returned.status = StatusTooManyRequests
          /\ (Called(returned, "reqAuth.Check") /\ returned.ident = "")
             => /\ returned.calls = <<"limiter.Check", "reqAuth.Check">>
                /\ "data" \notin returned.fields
                /\ returned.status \in {StatusUnauthorized, StatusInternalServerError}
          /\ (/\ Called(returned, "reqAuth.Check") /\ returned.ident = ""
              /\ returned.cookieIn = None /\ returned.bearerIn = 0)
             => /\ returned.status = StatusUnauthorized
                /\ returned.message = ""
          /\ "data" \in returned.fields => Called(returned, "db.GetVPlans")
    /\ \A now \in Times, fault \in BOOLEAN :
          \A a \in ReqAuthCheck(apitoken, None, 0, now, fault) :
             a.ident = "" /\ a.status = StatusUnauthorized /\ a.message = ""
    /\ \A w \in Workers :
          /\ pc[w] = "reqAuth"
             => frame[w].allowed /\ frame[w].calls = <<"limiter.Check">>
          /\ pc[w] = "getVPlans"
             => /\ frame[w].allowed /\ frame[w].ident # ""
                /\ frame[w].calls = <<"limiter.Check", "reqAuth.Check">>

C7_Witness ==
    /\ returned.op = "getVPlan" /\ returned.allowed
    /\ Called(returned, "reqAuth.Check")
    /\ returned.cookieIn = None /\ returned.bearerIn = 0
    /\ returned.status = StatusUnauthorized

\* C8: a SetUserAPIToken call that returns nil has written exactly one record,
\* a record of its identity, and no record of another identity.
C8_ExactlyOneRecordWritten ==
    (SetReturned /\ returned.err = Nil)
    => returned.written = 1 /\ returned.foreign = 0

\* C9: the table admits no second record of an identity; a fallback INSERT
\* that meets a record of its identity fails, and the call then runs the
\* UPDATE once more instead of returning.
C9_DuplicateInsertRetriesUpdate ==
    [][\A w \in Workers :
          (/\ pc[w] = "insert" /\ pc'[w] # "insert"
           /\ CountRows(apitoken, frame[w].ident) >= 1)
          => apitoken' = apitoken /\ pc'[w] = "update"]_vars

C11_PartialFailuresAreSkipped ==
    Called(returned, "db.GetVPlans")
    => /\ returned.planErr = Nil
          => /\ returned.status = StatusOK
             /\ returned.fields = {"data"}
             /\ returned.data = returned.collected
       /\ returned.status = StatusInternalServerError => returned.planErr # Nil

====
